---- MODULE Spec2Model ----
(***************************************************************************)
(* The data-integration pipeline of the movie recommender: the Mediator    *)
(* (mediated.py), the Integrator and the Rating Remapper (integration.py), *)
(* the loaders (data_load.py), the normalisation utilities (utils.py) and  *)
(* the memoised driver (prep_data.py).                                     *)
(*                                                                         *)
(* A table (pandas DataFrame) is a sequence of row records.  A cell that   *)
(* pandas holds as NaN/None is NaN; any other cell carries its Python type *)
(* (IntCell, FloatCell, StrCell).  A string is a sequence of one-character *)
(* strings, so that the regular expressions and the split/join calls can   *)
(* be computed.  Floats are exact rationals [n |-> numerator,              *)
(* d |-> denominator], integer-valued floats are IntCells: rounding is not *)
(* modelled.                                                               *)
(***************************************************************************)
EXTENDS Integers, Sequences, FiniteSets, TLC

VARIABLES
    sources,            \* the files of "Raw Data": presence of each source, and the data version
    disk,               \* data_processed/: each artifact is Absent or File(content)
    pc,                 \* position of the running function
    mediated,           \* the in-memory mediated table (local of main / argument of integrate_movies)
    integrated,         \* the in-memory integrated table
    ratings_integrated, \* the in-memory integrated ratings
    error,              \* the exception that ended the run, or NoError
    calls,              \* the compute functions called by the current run
    startDisk,          \* data_processed/ as it was when the current run started
    changes,            \* number of changes made to the files from outside the program
    source_df,          \* the source frame handed to a mapping of mediated.py
    arg,                \* the text handed to a function of utils.py
    result              \* what the function returned for it

vars == <<sources, disk, pc, mediated, integrated, ratings_integrated, error,
          calls, startDisk, changes, source_df, arg, result>>

(***************************************************************************)
(* Bounds of the model.                                                    *)
(***************************************************************************)
MaxRows == 3        \* rows of a mediated table given to integrate_movies
MaxChanges == 4     \* outside changes of the files between runs
MaxVersion == 2     \* versions of the source data

(***************************************************************************)
(* Cells.                                                                  *)
(***************************************************************************)
NaN == [t |-> "nan"]
IntCell(n) == [t |-> "int", v |-> n]
FloatCell(r) == [t |-> "float", v |-> r]
StrCell(s) == [t |-> "str", v |-> s]
\* pd.isna(x)
isna(x) == x.t = "nan"

\* Op(v), v evaluated once (operator arguments are otherwise re-evaluated at each use)
With(v, Op(_)) == CHOOSE r \in {Op(x) : x \in {v}} : TRUE

RECURSIVE GCD(_, _)
GCD(a, b) == With(<<a, b>>, LAMBDA p : IF p[2] = 0 THEN p[1] ELSE GCD(p[2], p[1] % p[2]))

Abs(n) == IF n < 0 THEN -n ELSE n

\* the rational n/d (d > 0) in lowest terms
Rat(n, d) == With(GCD(Abs(n), d), LAMBDA g : [n |-> n \div g, d |-> d \div g])
RatAdd(a, b) == With(<<a, b>>, LAMBDA p : Rat(p[1].n * p[2].d + p[2].n * p[1].d, p[1].d * p[2].d))
RatMulInt(a, k) == Rat(a.n * k, a.d)
RatDivInt(a, k) == Rat(a.n, a.d * k)

Range(s) == {s[i] : i \in DOMAIN s}

RECURSIVE SumInt(_)
SumInt(s) == With(s, LAMBDA x : IF x = <<>> THEN 0 ELSE Head(x) + SumInt(Tail(x)))

RECURSIVE SumRat(_)
SumRat(s) ==
    With(s, LAMBDA x : IF x = <<>> THEN Rat(0, 1) ELSE RatAdd(Head(x), SumRat(Tail(x))))

RECURSIVE Flatten(_)
Flatten(ss) ==
    With(ss, LAMBDA x : IF x = <<>> THEN <<>> ELSE Head(x) \o Flatten(Tail(x)))

(***************************************************************************)
(* Python's order on strings (code points).                                *)
(***************************************************************************)
Alphabet ==
    <<" ", "!", "\"", "'", "(", ")", ",", "-", ":",
      "0", "1", "2", "3", "4", "5", "6", "7", "8", "9",
      "A", "B", "C", "D", "E", "F", "G", "H", "I", "J", "K", "L", "M",
      "N", "O", "P", "Q", "R", "S", "T", "U", "V", "W", "X", "Y", "Z",
      "[", "\\", "]",
      "a", "b", "c", "d", "e", "f", "g", "h", "i", "j", "k", "l", "m",
      "n", "o", "p", "q", "r", "s", "t", "u", "v", "w", "x", "y", "z", "|">>

CharRank(c) == CHOOSE i \in DOMAIN Alphabet : Alphabet[i] = c

RECURSIVE StrLess(_, _)
StrLess(a, b) ==
    With(<<a, b>>, LAMBDA p :
        IF p[2] = <<>> THEN FALSE
        ELSE IF p[1] = <<>> THEN TRUE
        ELSE IF Head(p[1]) = Head(p[2]) THEN StrLess(Tail(p[1]), Tail(p[2]))
        ELSE CharRank(Head(p[1])) < CharRank(Head(p[2])))

Digits == <<"0", "1", "2", "3", "4", "5", "6", "7", "8", "9">>
IsDigit(c) == c \in Range(Digits)
DigitValue(c) == (CHOOSE i \in DOMAIN Digits : Digits[i] = c) - 1

\* the decimal digits of a natural number
RECURSIVE IntToStr(_)
IntToStr(n) ==
    With(n, LAMBDA x :
        IF x < 10 THEN <<Digits[x + 1]>>
        ELSE IntToStr(x \div 10) \o <<Digits[(x % 10) + 1]>>)

\* the number a non-empty string of decimal digits denotes
RECURSIVE StrToInt(_)
StrToInt(s) ==
    With(s, LAMBDA x :
        IF x = <<>> THEN 0
        ELSE StrToInt(SubSeq(x, 1, Len(x) - 1)) * 10 + DigitValue(x[Len(x)]))

\* str(x) of a cell that holds an int, a str or NaN
str(x) ==
    CASE x.t = "int" -> IntToStr(x.v)
      [] x.t = "nan" -> <<"n", "a", "n">>
      [] OTHER -> x.v

\* sep.join(tokens)
RECURSIVE Join(_, _)
Join(tokens, sep) ==
    With(tokens, LAMBDA x :
        IF x = <<>> THEN <<>>
        ELSE IF Len(x) = 1 THEN x[1]
        ELSE x[1] \o <<sep>> \o Join(Tail(x), sep))

\* s.split(sep), sep one character
RECURSIVE Split(_, _)
Split(s, sep) ==
    With(s, LAMBDA x :
        IF \A i \in DOMAIN x : x[i] # sep THEN <<x>>
        ELSE With(CHOOSE i \in DOMAIN x : x[i] = sep /\ \A j \in 1..(i - 1) : x[j] # sep,
                  LAMBDA k : <<SubSeq(x, 1, k - 1)>> \o Split(SubSeq(x, k + 1, Len(x)), sep)))

\* sorted(set(strings))
RECURSIVE SortStrings(_)
SortStrings(S) ==
    With(S, LAMBDA T :
        IF T = {} THEN <<>>
        ELSE With(CHOOSE x \in T : \A y \in T \ {x} : StrLess(x, y),
                  LAMBDA m : <<m>> \o SortStrings(T \ {m})))

(***************************************************************************)
(* utils.py                                                                *)
(***************************************************************************)
IsUpper(c) == CharRank(c) \in CharRank("A")..CharRank("Z")
IsLowerOrDigit(c) == CharRank(c) \in CharRank("a")..CharRank("z") \/ IsDigit(c)
\* the only whitespace of the model's alphabet
IsSpace(c) == c = " "

\* str.lower()
LowerChar(c) == IF IsUpper(c) THEN Alphabet[CharRank("a") + (CharRank(c) - CharRank("A"))] ELSE c
Lower(s) == With(s, LAMBDA x : [i \in DOMAIN x |-> LowerChar(x[i])])

\* "(dddd)" at positions i..i+5 of s
YearGroupAt(s, i) ==
    /\ i >= 1 /\ i + 5 <= Len(s)
    /\ s[i] = "(" /\ s[i + 5] = ")"
    /\ \A k \in (i + 1)..(i + 4) : IsDigit(s[k])

RECURSIVE RStrip(_)
RStrip(s) ==
    With(s, LAMBDA x :
        IF x # <<>> /\ IsSpace(x[Len(x)]) THEN RStrip(SubSeq(x, 1, Len(x) - 1)) ELSE x)

RECURSIVE LStrip(_)
LStrip(s) ==
    With(s, LAMBDA x : IF x # <<>> /\ IsSpace(Head(x)) THEN LStrip(Tail(x)) ELSE x)

\* re.sub(r"\s*\(\d{4}\)$", "", title)
StripYearSuffix(s) ==
    With(s, LAMBDA x :
        IF YearGroupAt(x, Len(x) - 5) THEN RStrip(SubSeq(x, 1, Len(x) - 6)) ELSE x)

\* re.sub(r"[^a-z0-9\s]", "", title)
RemovePunctuation(s) ==
    With(s, LAMBDA x : SelectSeq(x, LAMBDA c : IsLowerOrDigit(c) \/ IsSpace(c)))

\* title.split(): the maximal runs of non-whitespace
RECURSIVE Words(_)
Words(s) ==
    With(LStrip(s), LAMBDA t :
        IF t = <<>> THEN <<>>
        ELSE IF \A i \in DOMAIN t : ~IsSpace(t[i]) THEN <<t>>
        ELSE With(CHOOSE i \in DOMAIN t : IsSpace(t[i]) /\ \A j \in 1..(i - 1) : ~IsSpace(t[j]),
                  LAMBDA k : <<SubSeq(t, 1, k - 1)>> \o Words(SubSeq(t, k + 1, Len(t)))))

\* " ".join(title.split())
CollapseWhitespace(s) == Join(Words(s), " ")

HasPrefix(s, p) == Len(s) >= Len(p) /\ SubSeq(s, 1, Len(p)) = p

\* re.sub(r"^(the|a|an)\s+", "", title): the alternatives are tried in this order,
\* each must be followed by whitespace, which is removed with it
Articles == << <<"t", "h", "e">>, <<"a">>, <<"a", "n">> >>
FittingArticles(s) ==
    {k \in DOMAIN Articles :
        /\ HasPrefix(s, Articles[k])
        /\ Len(s) > Len(Articles[k])
        /\ IsSpace(s[Len(Articles[k]) + 1])}
StripLeadingArticle(s) ==
    With(s, LAMBDA x :
        With(FittingArticles(x), LAMBDA fits :
            IF fits = {} THEN x
            ELSE With(CHOOSE k \in fits : \A y \in fits : k <= y,
                      LAMBDA k : LStrip(SubSeq(x, Len(Articles[k]) + 1, Len(x))))))

\* normalize_title on the text of a title
NormalizeTitleText(s) ==
    StripLeadingArticle(CollapseWhitespace(RemovePunctuation(Lower(StripYearSuffix(s)))))

\* normalize_title(title): None for a missing title
normalize_title(title) ==
    IF isna(title) THEN NaN ELSE StrCell(NormalizeTitleText(str(title)))

\* g.strip(chars)
RECURSIVE StripChars(_, _)
StripChars(s, chars) ==
    With(s, LAMBDA x :
        IF x # <<>> /\ Head(x) \in chars THEN StripChars(Tail(x), chars)
        ELSE IF x # <<>> /\ x[Len(x)] \in chars THEN StripChars(SubSeq(x, 1, Len(x) - 1), chars)
        ELSE x)

SciFi == <<"s", "c", "i", "-", "f", "i">>
Scifi == <<"s", "c", "i", "f", "i">>
ScienceFiction ==
    <<"s", "c", "i", "e", "n", "c", "e", " ", "f", "i", "c", "t", "i", "o", "n">>

\* the genre names without the synonym table
GenreSynonymNone(g) == g

\* mapping.get(g, g)
GenreSynonym(g) == With(g, LAMBDA x : IF x = SciFi \/ x = Scifi THEN ScienceFiction ELSE x)

\* the parts of a genre field of one source
GenreParts(genres, source) ==
    CASE source = "imdb" ->
           With(Split(str(genres), ","), LAMBDA raw :
               [i \in DOMAIN raw |-> Lower(StripChars(raw[i], {" "}))])
      [] source = "movielens" ->
           With(Split(str(genres), "|"), LAMBDA raw :
               [i \in DOMAIN raw |-> Lower(StripChars(raw[i], {" "}))])
      [] source = "tmdb" ->
           IF genres.t = "list"
           THEN [i \in DOMAIN genres.v |-> Lower(StripChars(genres.v[i], {" "}))]
           ELSE With(SelectSeq(Split(StripChars(str(genres), {"[", "]"}), ","),
                               LAMBDA g : StripChars(g, {" "}) # <<>>),
                     LAMBDA raw :
                         [i \in DOMAIN raw |-> Lower(StripChars(raw[i], {" ", "'", "\""}))])
      [] OTHER -> <<>>

\* `if pd.isna(genres)` on a list of two or more elements: the truth value of the
\* array pd.isna returns is ambiguous (ValueError)
normalize_genres_raises(genres) == genres.t = "list" /\ Len(genres.v) > 1

\* normalize_genres(genres, source)
normalize_genres(genres, source) ==
    IF isna(genres) THEN StrCell(<<>>)
    ELSE With(GenreParts(genres, source), LAMBDA parts :
             With([i \in DOMAIN parts |-> GenreSynonym(parts[i])], LAMBDA norm :
                 IF norm = <<>> THEN StrCell(<<>>)
                 ELSE StrCell(Join(SortStrings(Range(norm)), "|"))))

\* float(x) raises ValueError: a string that is not a number
float_raises(x) == x.t = "str" /\ ~(x.v # <<>> /\ \A i \in DOMAIN x.v : IsDigit(x.v[i]))

\* float(x), as a rational
ToRat(x) ==
    CASE x.t = "float" -> x.v
      [] x.t = "int" -> Rat(x.v, 1)
      [] x.t = "str" -> Rat(StrToInt(x.v), 1)

\* scale_rating_to_10(rating, source), where it does not raise
scale_rating_to_10(rating, source) ==
    IF isna(rating) THEN NaN
    ELSE IF source = "movielens" THEN FloatCell(RatMulInt(ToRat(rating), 2))
    ELSE FloatCell(ToRat(rating))

\* extract_year_from_title(title): re.search(r"\((\d{4})\)", str(title))
extract_year_from_title(title) ==
    IF isna(title) THEN NaN
    ELSE With(str(title), LAMBDA s :
             With({i \in DOMAIN s : YearGroupAt(s, i)}, LAMBDA hits :
                 IF hits = {} THEN NaN
                 ELSE With(CHOOSE x \in hits : \A y \in hits : x <= y,
                           LAMBDA i : IntCell(StrToInt(SubSeq(s, i + 1, i + 4))))))

\* extract_year_from_date(date_str)
extract_year_from_date(date_str) ==
    IF isna(date_str) THEN NaN
    ELSE With(str(date_str), LAMBDA s :
             IF Len(s) >= 4 /\ \A i \in 1..4 : IsDigit(s[i])
             THEN IntCell(StrToInt(SubSeq(s, 1, 4)))
             ELSE NaN)

\* try: int(x) except Exception: np.nan
IntOrNaN(x) ==
    CASE x.t = "int" -> x
      [] x.t = "float" -> IntCell(x.v.n \div x.v.d)
      [] x.t = "str" -> IF x.v # <<>> /\ \A i \in DOMAIN x.v : IsDigit(x.v[i])
                        THEN IntCell(StrToInt(x.v)) ELSE NaN
      [] OTHER -> NaN

(***************************************************************************)
(* integration.py: integrate_movies                                        *)
(***************************************************************************)
\* grouping on the title alone
GroupKeyTitleOnly(r) == <<r.title_norm, NaN>>

GroupKey(r) == <<r.title_norm, r.year>>

\* sort order of one grouping column: values ascending, nulls last
TitleBefore(a, b) ==
    IF isna(a) THEN FALSE ELSE IF isna(b) THEN TRUE ELSE StrLess(a.v, b.v)
YearBefore(a, b) ==
    IF isna(a) THEN FALSE ELSE IF isna(b) THEN TRUE ELSE a.v < b.v
KeyBefore(k1, k2) ==
    \/ TitleBefore(k1[1], k2[1])
    \/ k1[1] = k2[1] /\ YearBefore(k1[2], k2[2])

\* a set of group keys as the sequence in sorted order
RECURSIVE SortKeys(_)
SortKeys(S) ==
    With(S, LAMBDA T :
        IF T = {} THEN <<>>
        ELSE With(CHOOSE x \in T : \A y \in T \ {x} : KeyBefore(x, y),
                  LAMBDA m : <<m>> \o SortKeys(T \ {m})))

\* groupby(dropna=True), the pandas default: rows with a null key are left out
GroupKeysDropna(rows) ==
    SortKeys({GroupKey(rows[i]) : i \in {j \in DOMAIN rows :
                ~isna(rows[j].title_norm) /\ ~isna(rows[j].year)}})

\* the group keys of mediated.groupby(["title_norm", "year"], dropna=False), in
\* iteration order (sort=True is the default of groupby)
GroupKeys(rows) ==
    SortKeys({GroupKey(rows[i]) : i \in DOMAIN rows})

GroupOf(rows, key) == SelectSeq(rows, LAMBDA r : GroupKey(r) = key)

\* group[group["source"] == src]["source_id"].tolist(), pipe-joined
SourceIds(group, src) ==
    LET sel == SelectSeq(group, LAMBDA r : r.source = src)
    IN  Join([i \in DOMAIN sel |-> str(sel[i].source_id)], "|")

\* the genres of the first member only
GenresOfFirstMember(group) ==
    IF isna(group[1].genres_norm) THEN <<>> ELSE group[1].genres_norm.v

\* genres union of a group
GenresUnion(group) ==
    LET kept == SelectSeq(group, LAMBDA r : ~isna(r.genres_norm) /\ r.genres_norm.v # <<>>)
        all_genres == Flatten([i \in DOMAIN kept |-> Split(kept[i].genres_norm.v, "|")])
    IN  IF all_genres # <<>> THEN Join(SortStrings(Range(all_genres)), "|") ELSE <<>>

\* counts = group["rating_count"].fillna(0)
Counts(group) ==
    [i \in DOMAIN group |-> IF isna(group[i].rating_count) THEN 0 ELSE group[i].rating_count.v]

\* np.nansum(ratings * counts): a product with an unknown rating is NaN and is skipped
NanSumProducts(group) ==
    LET counts == Counts(group)
        idx == SelectSeq([i \in DOMAIN group |-> i], LAMBDA i : ~isna(group[i].rating_value))
    IN  SumRat([j \in DOMAIN idx |-> RatMulInt(group[idx[j]].rating_value.v, counts[idx[j]])])

\* the weighted rating with the unknown ratings left out of the denominator as well
WeightedRatingExcluding(group) ==
    LET counts == Counts(group)
        idx == SelectSeq([i \in DOMAIN group |-> i], LAMBDA i : ~isna(group[i].rating_value))
        den == SumInt([j \in DOMAIN idx |-> counts[idx[j]]])
    IN  IF den > 0 THEN FloatCell(RatDivInt(NanSumProducts(group), den)) ELSE NaN

WeightedRating(group) ==
    LET total == SumInt(Counts(group))
    IN  IF total > 0 THEN FloatCell(RatDivInt(NanSumProducts(group), total)) ELSE NaN

\* the total over the members whose rating is known only
TotalCountOfRated(group) ==
    SumInt(Counts(SelectSeq(group, LAMBDA r : ~isna(r.rating_value))))

\* int(np.sum(counts)), or int(np.nansum(counts)) when the sum is not positive
TotalCount(group) == SumInt(Counts(group))

\* group["popularity"].max(): the largest known value, NaN when there is none
Popularity(group) ==
    LET known == {group[i].popularity.v : i \in {j \in DOMAIN group : ~isna(group[j].popularity)}}
    IN  IF known = {} THEN NaN ELSE IntCell(CHOOSE p \in known : \A q \in known : q <= p)

IntegratedRowOf(group, key, id) ==
        [movie_id      |-> id,
         title_norm    |-> key[1],
         year          |-> key[2],
         genres_norm   |-> StrCell(GenresUnion(group)),
         rating_value  |-> WeightedRating(group),
         rating_count  |-> IntCell(TotalCount(group)),
         popularity    |-> Popularity(group),
         imdb_ids      |-> StrCell(SourceIds(group, "imdb")),
         movielens_ids |-> StrCell(SourceIds(group, "movielens")),
         tmdb_ids      |-> StrCell(SourceIds(group, "tmdb"))]

IntegratedRow(rows, key, id) ==
    With(GroupOf(rows, key), LAMBDA group : IntegratedRowOf(group, key, id))

\* integrated_id = 1 ... integrated_id += 1
FirstId == 1
\* the counter without its increment
IdOfPositionNoIncrement(i) == FirstId

IdOfPosition(i) == FirstId + (i - 1)

\* the rows integrate_movies builds (integrated_rows)
integrate_movies(rows) ==
    With(GroupKeys(rows), LAMBDA keys :
        [i \in DOMAIN keys |-> IntegratedRow(rows, keys[i], IdOfPosition(i))])

(***************************************************************************)
(* Files.                                                                  *)
(***************************************************************************)
Absent == [exists |-> FALSE]
File(c) == [exists |-> TRUE, content |-> c]

\* data_processed/ as config.py leaves it: the directory exists and is empty
EmptyDisk ==
    [imdb_movies_raw       |-> Absent,
     movielens_movies_raw  |-> Absent,
     movielens_ratings_raw |-> Absent,
     mediated              |-> Absent,
     integrated_movies     |-> Absent,
     ratings_integrated    |-> Absent]

NoError == [type |-> "none"]
Exception(type, message) == [type |-> type, message |-> message]

SourceNames == {"imdb", "movielens", "tmdb"}

\* f"imdb:{id}", f"ml:{id}", f"tmdb:{id}"
TempIdPrefix(source) ==
    CASE source = "imdb" -> <<"i", "m", "d", "b", ":">>
      [] source = "movielens" -> <<"m", "l", ":">>
      [] source = "tmdb" -> <<"t", "m", "d", "b", ":">>

\* one row of the mediated schema
MediatedRow(source, source_id, title_norm, year, genres_norm, rating_value, rating_count, popularity, budget, revenue) ==
    [movie_temp_id |-> StrCell(TempIdPrefix(source) \o str(source_id)),
     source        |-> source,
     source_id     |-> source_id,
     title_norm    |-> title_norm,
     year          |-> year,
     genres_norm   |-> genres_norm,
     rating_value  |-> rating_value,
     rating_count  |-> rating_count,
     popularity    |-> popularity,
     budget        |-> budget,
     revenue       |-> revenue]

(***************************************************************************)
(* mediated.py: the three mappings into the mediated schema.  A mapping    *)
(* returns Frame(columns, rows), or Raised(e) when a row raises e.         *)
(***************************************************************************)
Frame(columns, rows) == [raised |-> FALSE, columns |-> columns, rows |-> rows]
Raised(e) == [raised |-> TRUE, error |-> e]

MediatedColumns ==
    <<"movie_temp_id", "source", "source_id", "title_norm", "year", "genres_norm",
      "rating_value", "rating_count", "popularity", "budget", "revenue">>

\* pd.DataFrame(rows) of row dicts of the mediated schema
FrameOfRows(rows) == Frame(IF rows = <<>> THEN <<>> ELSE MediatedColumns, rows)

ImdbRowRaises(row) ==
    \/ normalize_genres_raises(row.genres)
    \/ ~isna(row.averageRating) /\ float_raises(row.averageRating)

ImdbRow(row) ==
    MediatedRow("imdb", row.tconst, normalize_title(row.primaryTitle),
                IntOrNaN(row.startYear), normalize_genres(row.genres, "imdb"),
                scale_rating_to_10(row.averageRating, "imdb"), row.numVotes,
                NaN, NaN, NaN)

map_imdb_to_mediated(df_imdb) ==
    IF \E i \in DOMAIN df_imdb : ImdbRowRaises(df_imdb[i]) THEN Raised(Exception("ValueError", "could not convert string to float"))
    ELSE FrameOfRows([i \in DOMAIN df_imdb |-> ImdbRow(df_imdb[i])])

MovielensRowRaises(row) ==
    \/ normalize_genres_raises(row.genres)
    \/ ~isna(row.rating_mean) /\ float_raises(row.rating_mean)

MovielensRow(row) ==
    MediatedRow("movielens", row.movieId, normalize_title(row.title),
                extract_year_from_title(row.title), normalize_genres(row.genres, "movielens"),
                scale_rating_to_10(row.rating_mean, "movielens"), row.rating_count,
                NaN, NaN, NaN)

map_movielens_to_mediated(df_ml_movies) ==
    IF \E i \in DOMAIN df_ml_movies : MovielensRowRaises(df_ml_movies[i])
    THEN Raised(Exception("ValueError", "could not convert string to float"))
    ELSE FrameOfRows([i \in DOMAIN df_ml_movies |-> MovielensRow(df_ml_movies[i])])

HasColumn(df, c) == c \in Range(df.columns)

\* row[c] if c in df.columns else np.nan
CellOrNaN(df, row, c) == IF HasColumn(df, c) THEN row[c] ELSE NaN

TmdbGenres(df, row) ==
    IF HasColumn(df, "genre_names") THEN row["genre_names"]
    ELSE IF HasColumn(df, "genres") THEN row["genres"]
    ELSE StrCell(<<>>)

TmdbIdColumn(df) ==
    IF HasColumn(df, "id") THEN "id"
    ELSE IF HasColumn(df, "tmdbId") THEN "tmdbId"
    ELSE df.columns[1]

TmdbYear(df, row) ==
    IF HasColumn(df, "release_date") THEN extract_year_from_date(row["release_date"])
    ELSE IF HasColumn(df, "year") THEN IntOrNaN(row["year"])
    ELSE NaN

TmdbRowRaises(df, row) ==
    \/ normalize_genres_raises(TmdbGenres(df, row))
    \/ LET vote_avg == CellOrNaN(df, row, "vote_average")
       IN  ~isna(vote_avg) /\ float_raises(vote_avg)

TmdbRow(df, row) ==
    MediatedRow("tmdb", row[TmdbIdColumn(df)], normalize_title(row["title"]),
                TmdbYear(df, row), normalize_genres(TmdbGenres(df, row), "tmdb"),
                scale_rating_to_10(CellOrNaN(df, row, "vote_average"), "tmdb"),
                CellOrNaN(df, row, "vote_count"), CellOrNaN(df, row, "popularity"),
                CellOrNaN(df, row, "budget"), CellOrNaN(df, row, "revenue"))

\* the mapping without its test for an empty frame
map_tmdb_to_mediated_unguarded(df_tmdb) ==
    IF ~HasColumn(df_tmdb, "title") THEN Raised(Exception("KeyError", "title"))
    ELSE IF \E i \in DOMAIN df_tmdb.rows : TmdbRowRaises(df_tmdb, df_tmdb.rows[i])
         THEN Raised(Exception("ValueError", "could not convert string to float"))
    ELSE FrameOfRows([i \in DOMAIN df_tmdb.rows |-> TmdbRow(df_tmdb, df_tmdb.rows[i])])

map_tmdb_to_mediated(df_tmdb) ==
    IF df_tmdb.rows = <<>> THEN Frame(MediatedColumns, <<>>)
    ELSE IF ~HasColumn(df_tmdb, "title") THEN Raised(Exception("KeyError", "title"))
    ELSE IF \E i \in DOMAIN df_tmdb.rows : TmdbRowRaises(df_tmdb, df_tmdb.rows[i])
         THEN Raised(Exception("ValueError", "could not convert string to float"))
    ELSE FrameOfRows([i \in DOMAIN df_tmdb.rows |-> TmdbRow(df_tmdb, df_tmdb.rows[i])])

(***************************************************************************)
(* The source data.  Version v of the raw files: odd versions hold one     *)
(* movie per source; even versions add two MovieLens movies, one of them a *)
(* second listing of the first.  The IMDb vote count grows with v.         *)
(***************************************************************************)
IMDB_BASICS(v) ==
    << [tconst |-> StrCell(<<"t", "t", "1">>), primaryTitle |-> StrCell(<<"U", "p">>),
        startYear |-> IntCell(2009), genres |-> StrCell(<<"C", "o", "m", "e", "d", "y", ",", "D", "r", "a", "m", "a">>)] >>

IMDB_RATINGS(v) ==
    << [tconst |-> StrCell(<<"t", "t", "1">>), averageRating |-> FloatCell(Rat(8, 1)),
        numVotes |-> IntCell(100 * v)] >>

ML_MOVIES(v) ==
    << [movieId |-> IntCell(1), title |-> StrCell(<<"U", "p", " ", "(", "2", "0", "0", "9", ")">>), genres |-> StrCell(<<"C", "o", "m", "e", "d", "y", "|", "S", "c", "i", "-", "F", "i">>)] >>
    \o (IF v % 2 = 0
        THEN << [movieId |-> IntCell(2), title |-> StrCell(<<"R", "a", "n", " ", "(", "1", "9", "8", "5", ")">>), genres |-> StrCell(<<"D", "r", "a", "m", "a">>)],
                [movieId |-> IntCell(4), title |-> StrCell(<<"U", "p", " ", "(", "2", "0", "0", "9", ")">>), genres |-> StrCell(<<"C", "o", "m", "e", "d", "y", "|", "S", "c", "i", "-", "F", "i">>)] >>
        ELSE <<>>)

\* the rating of movie 3 refers to a movie that ML_MOVIES does not list
ML_RATINGS(v) ==
    << [userId |-> IntCell(1), movieId |-> IntCell(1), rating |-> FloatCell(Rat(4, 1))],
       [userId |-> IntCell(2), movieId |-> IntCell(1), rating |-> FloatCell(Rat(7, 2))],
       [userId |-> IntCell(1), movieId |-> IntCell(3), rating |-> FloatCell(Rat(5, 1))] >>

TMDB_MOVIES(v) ==
    [columns |-> <<"id", "title", "release_date", "genre_names", "vote_average",
                   "vote_count", "popularity">>,
     rows |-> << [id |-> IntCell(14160), title |-> StrCell(<<"U", "p">>),
                  release_date |-> StrCell(<<"2", "0", "0", "9", "-", "0", "5", "-", "2", "8">>), genre_names |-> StrCell(<<"[", "'", "C", "o", "m", "e", "d", "y", "'", "]">>),
                  vote_average |-> FloatCell(Rat(79, 10)), vote_count |-> IntCell(1000),
                  popularity |-> IntCell(50)] >>]

(***************************************************************************)
(* CSV files.  The disk holds a table as written by to_csv; read_csv gives *)
(* the table pandas parses from it: empty and NA strings are NaN, a column *)
(* whose cells are all numbers, digit strings or empty is numeric, and in  *)
(* any other column a number comes back as its text.                       *)
(***************************************************************************)
NaStrings == { <<>>, <<"n", "a", "n">>, <<"n", "u", "l", "l">>, <<"N", "A">>, <<"N", "a", "N">>, <<"N", "U", "L", "L">>, <<"N", "o", "n", "e">> }

AllDigits(s) == s # <<>> /\ \A i \in DOMAIN s : IsDigit(s[i])

\* the columns the model holds as plain values; they round-trip unchanged
PlainColumns == {"source", "movie_id"}

NumericColumn(rows, c) ==
    \A i \in DOMAIN rows :
        LET x == rows[i][c]
        IN  x.t \in {"nan", "int", "float"} \/ (x.t = "str" /\ (x.v \in NaStrings \/ AllDigits(x.v)))

ReadCell(x, numeric) ==
    IF x.t = "str" /\ x.v \in NaStrings THEN NaN
    ELSE IF numeric /\ x.t = "str" THEN IntCell(StrToInt(x.v))
    ELSE IF ~numeric /\ x.t = "int" THEN StrCell(IntToStr(x.v))
    ELSE x

\* pd.read_csv(path) of the file that to_csv wrote from rows
read_csv(rows) ==
    [i \in DOMAIN rows |->
        [c \in DOMAIN rows[i] |->
            IF c \in PlainColumns THEN rows[i][c]
            ELSE ReadCell(rows[i][c], NumericColumn(rows, c))]]

(***************************************************************************)
(* data_load.py                                                            *)
(***************************************************************************)
ImdbMergedRow(b, r) ==
    [tconst |-> b.tconst, primaryTitle |-> b.primaryTitle, startYear |-> b.startYear,
     genres |-> b.genres, averageRating |-> r.averageRating, numVotes |-> r.numVotes]

\* basics.merge(ratings, on="tconst", how="left"), the six columns kept
ImdbLeftMerge(basics, ratings) ==
    Flatten([i \in DOMAIN basics |->
        With(SelectSeq(ratings, LAMBDA r : r.tconst = basics[i].tconst), LAMBDA matches :
            IF matches = <<>>
            THEN <<ImdbMergedRow(basics[i], [averageRating |-> NaN, numVotes |-> NaN])>>
            ELSE [j \in DOMAIN matches |-> ImdbMergedRow(basics[i], matches[j])])])

load_imdb_raw(v) == ImdbLeftMerge(IMDB_BASICS(v), IMDB_RATINGS(v))

\* movies.merge(ratings.groupby("movieId").agg(mean, count), how="left")
MovielensAgg(movies, ratings) ==
    [i \in DOMAIN movies |->
        With(SelectSeq(ratings, LAMBDA r : r.movieId = movies[i].movieId), LAMBDA mine :
            [movieId |-> movies[i].movieId, title |-> movies[i].title,
             genres |-> movies[i].genres,
             rating_mean |-> IF mine = <<>> THEN NaN
                             ELSE FloatCell(RatDivInt(SumRat([j \in DOMAIN mine |-> mine[j].rating.v]),
                                                      Len(mine))),
             rating_count |-> IF mine = <<>> THEN NaN ELSE IntCell(Len(mine))])]

\* load_movielens_raw(): (movies_agg, ratings)
load_movielens_raw(v) ==
    [movies_agg |-> MovielensAgg(ML_MOVIES(v), ML_RATINGS(v)), ratings |-> ML_RATINGS(v)]

ImdbNotFound == Exception("FileNotFoundError", "IMDb CSVs not found in data_raw/.")
MovielensNotFound == Exception("FileNotFoundError", "MovieLens CSVs not found in data_raw/.")

(***************************************************************************)
(* mediated.py: build_mediated_table.  The result is the new state of      *)
(* data_processed/, the exception raised (or NoError) and the table.       *)
(***************************************************************************)
Outcome(d, e, rows) == [disk |-> d, error |-> e, rows |-> rows]

\* load_tmdb_raw() with `except FileNotFoundError: df_tmdb = pd.DataFrame()`
TmdbOrEmpty(src) ==
    IF src.tmdb THEN TMDB_MOVIES(src.version) ELSE [columns |-> <<>>, rows |-> <<>>]

\* the three mapped frames concatenated and saved
ConcatAndSave(d, imdb_m, ml_m, tmdb_m) ==
    IF imdb_m.raised THEN Outcome(d, imdb_m.error, <<>>)
    ELSE IF ml_m.raised THEN Outcome(d, ml_m.error, <<>>)
    ELSE IF tmdb_m.raised THEN Outcome(d, tmdb_m.error, <<>>)
    ELSE With(imdb_m.rows \o ml_m.rows \o tmdb_m.rows, LAMBDA rows :
             Outcome([d EXCEPT !.mediated = File(rows)], NoError, rows))

\* the concatenation that leaves the TMDb frame out
MapAndConcatNoTmdb(src, d, df_imdb, df_ml_movies) ==
    With(<<map_imdb_to_mediated(df_imdb), map_movielens_to_mediated(df_ml_movies)>>,
         LAMBDA m : ConcatAndSave(d, m[1], m[2], Frame(MediatedColumns, <<>>)))

MapAndConcat(src, d, df_imdb, df_ml_movies) ==
    With(<<map_imdb_to_mediated(df_imdb), map_movielens_to_mediated(df_ml_movies),
           map_tmdb_to_mediated(TmdbOrEmpty(src))>>,
         LAMBDA m : ConcatAndSave(d, m[1], m[2], m[3]))

\* the MovieLens part that goes on with an empty frame when the CSVs are missing
BuildFromMovielensLenient(src, d, df_imdb) ==
    IF d.movielens_movies_raw.exists
    THEN MapAndConcat(src, d, df_imdb, read_csv(d.movielens_movies_raw.content))
    ELSE IF ~src.movielens THEN MapAndConcat(src, d, df_imdb, <<>>)
    ELSE With(load_movielens_raw(src.version), LAMBDA ml :
             MapAndConcat(src,
                          [d EXCEPT !.movielens_movies_raw = File(ml.movies_agg),
                                    !.movielens_ratings_raw = File(ml.ratings)],
                          df_imdb, ml.movies_agg))

\* the MovieLens part of build_mediated_table and what follows it
BuildFromMovielens(src, d, df_imdb) ==
    IF d.movielens_movies_raw.exists
    THEN MapAndConcat(src, d, df_imdb, read_csv(d.movielens_movies_raw.content))
    ELSE IF ~src.movielens THEN Outcome(d, MovielensNotFound, <<>>)
    ELSE With(load_movielens_raw(src.version), LAMBDA ml :
             MapAndConcat(src,
                          [d EXCEPT !.movielens_movies_raw = File(ml.movies_agg),
                                    !.movielens_ratings_raw = File(ml.ratings)],
                          df_imdb, ml.movies_agg))

build_mediated_table(src, d) ==
    IF d.imdb_movies_raw.exists
    THEN BuildFromMovielens(src, d, read_csv(d.imdb_movies_raw.content))
    ELSE IF ~src.imdb THEN Outcome(d, ImdbNotFound, <<>>)
    ELSE With(load_imdb_raw(src.version), LAMBDA df_imdb :
             BuildFromMovielens(src, [d EXCEPT !.imdb_movies_raw = File(df_imdb)], df_imdb))

(***************************************************************************)
(* integration.py: map_movielens_ratings_to_integrated                     *)
(***************************************************************************)
\* the row is skipped: pd.isna(ml_ids_str) or ml_ids_str == ""
SkipsRow(cell) == isna(cell) \/ (cell.t = "str" /\ cell.v = <<>>)

\* the non-empty tokens of ml_ids_str.split("|")
MlTokens(cell) == SelectSeq(Split(cell.v, "|"), LAMBDA mid : mid # <<>>)

\* the exception the lookup loop raises on a row, or NoError
LookupRowError(cell) ==
    IF SkipsRow(cell) THEN NoError
    ELSE IF cell.t # "str"
         THEN Exception("AttributeError", "object has no attribute 'split'")
    ELSE IF With(MlTokens(cell), LAMBDA toks : \E k \in DOMAIN toks : ~AllDigits(toks[k]))
         THEN Exception("ValueError", "invalid literal for int()")
    ELSE NoError

\* the exception of the first row that raises, or NoError
LookupError(integ) ==
    With({j \in DOMAIN integ : LookupRowError(integ[j].movielens_ids) # NoError}, LAMBDA bad :
        IF bad = {} THEN NoError
        ELSE LookupRowError(integ[CHOOSE j \in bad : \A k \in bad : j <= k].movielens_ids))

\* the rows that list the native id, where no row raises
RowsListing(integ, id) ==
    {j \in DOMAIN integ :
        /\ ~SkipsRow(integ[j].movielens_ids)
        /\ With(MlTokens(integ[j].movielens_ids), LAMBDA toks :
                \E k \in DOMAIN toks : StrToInt(toks[k]) = id)}

\* ml_to_integrated[id]: the last assignment wins
ml_to_integrated(integ, id) ==
    With(RowsListing(integ, id), LAMBDA listing :
        integ[CHOOSE j \in listing : \A k \in listing : k <= j].movie_id)

\* ratings[ratings["movieId"].isin(keys)] with the movie_id column added
MappedRows(integ, ratings) ==
    With(SelectSeq(ratings, LAMBDA r : RowsListing(integ, r.movieId.v) # {}), LAMBDA kept :
        [i \in DOMAIN kept |->
            [c \in DOMAIN kept[i] \cup {"movie_id"} |->
                IF c = "movie_id" THEN ml_to_integrated(integ, kept[i].movieId.v)
                ELSE kept[i][c]]])

\* the lookup, the filter and the save, once movielens_ratings_raw.csv is in place
MapFromRaw(d, integ) ==
    With(LookupError(integ), LAMBDA raised :
        IF raised # NoError THEN Outcome(d, raised, <<>>)
        ELSE With(MappedRows(integ, read_csv(d.movielens_ratings_raw.content)), LAMBDA mapped :
                 Outcome([d EXCEPT !.ratings_integrated = File(mapped)], NoError, mapped)))

map_movielens_ratings_to_integrated(src, d, integ) ==
    IF d.movielens_ratings_raw.exists THEN MapFromRaw(d, integ)
    ELSE IF ~src.movielens THEN Outcome(d, MovielensNotFound, <<>>)
    ELSE With(load_movielens_raw(src.version), LAMBDA ml :
             MapFromRaw([d EXCEPT !.movielens_movies_raw = File(ml.movies_agg),
                                  !.movielens_ratings_raw = File(ml.ratings)], integ))

(***************************************************************************)
(* prep_data.py: main, one action per stage.                               *)
(***************************************************************************)
\* no frame is being mapped
NoFrame == [source |-> "none", columns |-> <<>>, rows |-> <<>>]

\* no function of utils.py is being applied
NoArg == [function |-> "none"]
NoResult == [function |-> "none"]

Artifacts ==
    {"imdb_movies_raw", "movielens_movies_raw", "movielens_ratings_raw",
     "mediated", "integrated_movies", "ratings_integrated"}

Resting == {"idle", "done", "aborted"}

Init ==
    /\ sources \in [imdb : BOOLEAN, movielens : BOOLEAN, tmdb : BOOLEAN, version : {1}]
    /\ disk = EmptyDisk
    /\ pc = "idle"
    /\ mediated = <<>>
    /\ integrated = <<>>
    /\ ratings_integrated = <<>>
    /\ error = NoError
    /\ calls = {}
    /\ startDisk = EmptyDisk
    /\ changes = 0
    /\ source_df = NoFrame
    /\ arg = NoArg
    /\ result = NoResult

\* python prep_data.py
Start ==
    /\ pc \in Resting
    /\ pc' = "stage1"
    /\ startDisk' = disk
    /\ calls' = {}
    /\ error' = NoError
    /\ mediated' = <<>>
    /\ integrated' = <<>>
    /\ ratings_integrated' = <<>>
    /\ UNCHANGED <<sources, disk, changes, source_df, arg, result>>

\* the memoisation tests of main
MediatedLoads(d) == d.mediated.exists
\* a second stage that never finds its artifact
IntegratedNeverLoads(d) == FALSE
IntegratedLoads(d) == d.integrated_movies.exists
RatingsLoads(d) == d.ratings_integrated.exists

\* 1. Mediated table
Stage1 ==
    /\ pc = "stage1"
    /\ IF MediatedLoads(disk)
       THEN /\ mediated' = read_csv(disk.mediated.content)
            /\ pc' = "stage2"
            /\ UNCHANGED <<disk, calls, error>>
       ELSE \E out \in {build_mediated_table(sources, disk)} :
                /\ disk' = out.disk
                /\ calls' = calls \cup {"build_mediated_table"}
                /\ error' = out.error
                /\ mediated' = out.rows
                /\ pc' = IF out.error = NoError THEN "stage2" ELSE "aborted"
    /\ UNCHANGED <<sources, integrated, ratings_integrated, startDisk, changes, source_df, arg, result>>

\* 2. Integrated movies
Stage2 ==
    /\ pc = "stage2"
    /\ IF IntegratedLoads(disk)
       THEN /\ integrated' = read_csv(disk.integrated_movies.content)
            /\ UNCHANGED <<disk, calls>>
       ELSE /\ integrated' = integrate_movies(mediated)
            /\ disk' = [disk EXCEPT !.integrated_movies = File(integrated')]
            /\ calls' = calls \cup {"integrate_movies"}
    /\ pc' = "stage3"
    /\ UNCHANGED <<sources, mediated, ratings_integrated, error, startDisk, changes, source_df, arg, result>>

\* 3. Integrated ratings
Stage3 ==
    /\ pc = "stage3"
    /\ IF RatingsLoads(disk)
       THEN /\ ratings_integrated' = read_csv(disk.ratings_integrated.content)
            /\ pc' = "done"
            /\ UNCHANGED <<disk, calls, error>>
       ELSE \E out \in {map_movielens_ratings_to_integrated(sources, disk, integrated)} :
                /\ disk' = out.disk
                /\ calls' = calls \cup {"map_movielens_ratings_to_integrated"}
                /\ error' = out.error
                /\ ratings_integrated' = out.rows
                /\ pc' = IF out.error = NoError THEN "done" ELSE "aborted"
    /\ UNCHANGED <<sources, mediated, integrated, startDisk, changes, source_df, arg, result>>

(***************************************************************************)
(* The files change from outside between two runs.                         *)
(***************************************************************************)
Outside ==
    /\ pc \in Resting
    /\ changes < MaxChanges
    /\ changes' = changes + 1
    /\ pc' = "idle"
    /\ UNCHANGED <<mediated, integrated, ratings_integrated, error, calls, startDisk, source_df, arg, result>>

\* one artifact of data_processed/ is removed
RemoveArtifact ==
    \E a \in Artifacts :
        /\ disk[a].exists
        /\ Outside
        /\ disk' = [disk EXCEPT ![a] = Absent]
        /\ UNCHANGED sources

\* data_processed/ is emptied
CleanProcessed ==
    /\ disk # EmptyDisk
    /\ Outside
    /\ disk' = EmptyDisk
    /\ UNCHANGED sources

\* the raw files of one source are removed or put back
ToggleSource ==
    \E s \in SourceNames :
        /\ Outside
        /\ sources' = [sources EXCEPT ![s] = ~sources[s]]
        /\ UNCHANGED disk

\* the raw files are replaced by the next version of the data
ChangeSource ==
    /\ sources.version < MaxVersion
    /\ Outside
    /\ sources' = [sources EXCEPT !.version = sources.version + 1]
    /\ UNCHANGED disk

Next ==
    \/ Start \/ Stage1 \/ Stage2 \/ Stage3
    \/ RemoveArtifact \/ CleanProcessed \/ ToggleSource \/ ChangeSource

Spec == Init /\ [][Next]_vars

(***************************************************************************)
(* integrate_movies on bounded mediated tables: the table is assembled row *)
(* by row from a small domain, then integrate_movies runs on it.  The i-th *)
(* row carries the i-th native id of its source (a source's ids are keys). *)
(***************************************************************************)
NativeId(source, i) ==
    IF source = "imdb" THEN StrCell(<<"t", "t">> \o IntToStr(i)) ELSE IntCell(i)

Drama == <<"d", "r", "a", "m", "a">>
Up == <<"u", "p">>
Ran == <<"r", "a", "n">>

\* the group keys of the key-oriented tables
KeyDomain ==
    { <<NaN, NaN>>, <<NaN, IntCell(2009)>>,
      <<StrCell(Up), NaN>>, <<StrCell(Up), IntCell(2009)>>, <<StrCell(Up), IntCell(1985)>>,
      <<StrCell(Ran), IntCell(1985)>> }

\* the (rating_value, rating_count) pairs of the rating-oriented tables
RatingDomain ==
    {NaN, FloatCell(Rat(6, 1)), FloatCell(Rat(8, 1))} \X {NaN, IntCell(0), IntCell(100)}

InitTables ==
    /\ sources = [imdb |-> TRUE, movielens |-> TRUE, tmdb |-> TRUE, version |-> 1]
    /\ disk = EmptyDisk
    /\ pc = "input"
    /\ mediated = <<>>
    /\ integrated = <<>>
    /\ ratings_integrated = <<>>
    /\ error = NoError
    /\ calls = {}
    /\ startDisk = EmptyDisk
    /\ changes = 0
    /\ source_df = NoFrame
    /\ arg = NoArg
    /\ result = NoResult

AppendRow(r) ==
    /\ pc = "input"
    /\ Len(mediated) < MaxRows
    /\ mediated' = Append(mediated, r)
    /\ UNCHANGED <<sources, disk, pc, integrated, ratings_integrated, error, calls,
                   startDisk, changes, source_df, arg, result>>

\* a row whose source and group key vary
AddKeyRow ==
    \E source \in SourceNames, key \in KeyDomain :
        AppendRow(MediatedRow(source, NativeId(source, Len(mediated) + 1), key[1], key[2],
                              StrCell(Drama), FloatCell(Rat(7, 1)), IntCell(10),
                              NaN, NaN, NaN))

\* a row whose rating, count and title vary
AddRatedRow ==
    \E title \in {Up, Ran}, rc \in RatingDomain :
        AppendRow(MediatedRow("tmdb", NativeId("tmdb", Len(mediated) + 1), StrCell(title),
                              IntCell(2009), StrCell(Drama), rc[1], rc[2],
                              NaN, NaN, NaN))

\* integrate_movies(mediated): builds the rows, saves them, returns them
IntegrateMovies ==
    /\ pc = "input"
    /\ integrated' = integrate_movies(mediated)
    /\ disk' = [disk EXCEPT !.integrated_movies = File(integrated')]
    /\ calls' = calls \cup {"integrate_movies"}
    /\ pc' = "integrated"
    /\ UNCHANGED <<sources, mediated, ratings_integrated, error, startDisk, changes, source_df, arg, result>>

NextKeys == AddKeyRow \/ IntegrateMovies
NextRating == AddRatedRow \/ IntegrateMovies

SpecKeys == InitTables /\ [][NextKeys]_vars
SpecRating == InitTables /\ [][NextRating]_vars

\* the genres_norm values of mediated rows: unknown, empty, one or two genres
GenreLists ==
    {NaN, StrCell(<<>>), StrCell(Drama), StrCell(<<"c", "o", "m", "e", "d", "y", "|", "d", "r", "a", "m", "a">>), StrCell(<<"a", "c", "t", "i", "o", "n">>)}

\* a row whose genres and group vary
AddGenreRow ==
    \E key \in {<<Up, 2009>>, <<Ran, 1985>>}, genres \in GenreLists :
        AppendRow(MediatedRow("imdb", NativeId("imdb", Len(mediated) + 1), StrCell(key[1]),
                              IntCell(key[2]), genres, FloatCell(Rat(7, 1)), IntCell(10),
                              NaN, NaN, NaN))

\* a second integrate_movies(mediated) whose integrated_id goes on from the first call's
IntegrateMoviesAgainContinuing ==
    /\ pc = "integrated"
    /\ integrated' = [i \in DOMAIN integrated |->
                        [integrate_movies(mediated)[i] EXCEPT !.movie_id = @ + Len(integrated)]]
    /\ disk' = [disk EXCEPT !.integrated_movies = File(integrated')]
    /\ calls' = calls \cup {"integrate_movies"}
    /\ pc' = "integrated_again"
    /\ UNCHANGED <<sources, mediated, ratings_integrated, error, startDisk, changes,
                   source_df, arg, result>>

\* integrate_movies(mediated) once more, on the same table
IntegrateMoviesAgain ==
    /\ pc = "integrated"
    /\ integrated' = integrate_movies(mediated)
    /\ disk' = [disk EXCEPT !.integrated_movies = File(integrated')]
    /\ calls' = calls \cup {"integrate_movies"}
    /\ pc' = "integrated_again"
    /\ UNCHANGED <<sources, mediated, ratings_integrated, error, startDisk, changes,
                   source_df, arg, result>>

NextGenreRows == AddGenreRow \/ IntegrateMovies \/ IntegrateMoviesAgain

SpecGenreRows == InitTables /\ [][NextGenreRows]_vars

(***************************************************************************)
(* The three mappings on bounded source frames: a frame is assembled row   *)
(* by row, each row the source's well-formed record with at most one field *)
(* missing (NaN) or malformed (the text \N, the null marker of the IMDb    *)
(* dumps, which data/convert.py writes through), then the mapping of the   *)
(* frame's source runs on it.                                              *)
(***************************************************************************)
MaxRawRows == 2

Malformed == StrCell(<<"\\", "N">>)

ImdbColumns ==
    <<"tconst", "primaryTitle", "startYear", "genres", "averageRating", "numVotes">>
MovielensColumns == <<"movieId", "title", "genres", "rating_mean", "rating_count">>
\* layouts of movies_tmdb.csv that map_tmdb_to_mediated provides for
TmdbLayouts ==
    { <<"id", "title", "release_date", "genre_names", "vote_average", "vote_count",
        "popularity">>,
      <<"tmdbId", "title", "year", "genres">>,
      <<"title", "vote_average">> }

IdColumns == {"tconst", "movieId", "id", "tmdbId"}
TitleColumns == {"primaryTitle", "title"}
YearColumns == {"startYear", "year", "release_date"}
GenreColumns == {"genres", "genre_names"}
RatingColumns == {"averageRating", "rating_mean", "vote_average"}
CountColumns == {"numVotes", "rating_count", "vote_count"}

\* the well-formed value of column c in the i-th row of a source
WellFormed(source, c, i) ==
    CASE c = "tconst" -> NativeId("imdb", i)
      [] c \in IdColumns \ {"tconst"} -> IntCell(i)
      [] c \in TitleColumns ->
           IF source = "movielens" THEN StrCell(<<"U", "p", " ", "(", "2", "0", "0", "9", ")">>) ELSE StrCell(<<"U", "p">>)
      [] c = "release_date" -> StrCell(<<"2", "0", "0", "9", "-", "0", "5", "-", "2", "8">>)
      [] c \in YearColumns \ {"release_date"} -> IntCell(2009)
      [] c \in GenreColumns ->
           (CASE source = "imdb" -> StrCell(<<"C", "o", "m", "e", "d", "y", ",", "D", "r", "a", "m", "a">>)
              [] source = "movielens" -> StrCell(<<"C", "o", "m", "e", "d", "y", "|", "S", "c", "i", "-", "F", "i">>)
              [] source = "tmdb" -> StrCell(<<"[", "'", "C", "o", "m", "e", "d", "y", "'", "]">>))
      [] c = "rating_mean" -> FloatCell(Rat(15, 4))
      [] c \in RatingColumns \ {"rating_mean"} -> FloatCell(Rat(8, 1))
      [] c \in CountColumns -> IntCell(100)
      [] c = "popularity" -> IntCell(50)

\* the values a field takes when it is not well-formed
BadValues(c) == IF c \in TitleColumns THEN {NaN} ELSE {NaN, Malformed}

InitMed ==
    /\ sources = [imdb |-> TRUE, movielens |-> TRUE, tmdb |-> TRUE, version |-> 1]
    /\ disk = EmptyDisk
    /\ pc = "raw"
    /\ mediated = <<>>
    /\ integrated = <<>>
    /\ ratings_integrated = <<>>
    /\ error = NoError
    /\ calls = {}
    /\ startDisk = EmptyDisk
    /\ changes = 0
    /\ source_df \in
         {[source |-> "imdb", columns |-> ImdbColumns, rows |-> <<>>],
          [source |-> "movielens", columns |-> MovielensColumns, rows |-> <<>>]}
         \cup {[source |-> "tmdb", columns |-> cols, rows |-> <<>>] : cols \in TmdbLayouts}
    /\ arg = NoArg
    /\ result = NoResult

\* one more row in the source frame, all fields well-formed
AddWellFormedRow ==
    /\ pc = "raw"
    /\ Len(source_df.rows) < MaxRawRows
    /\ source_df' =
         [source_df EXCEPT !.rows = Append(@,
             [c \in Range(source_df.columns) |->
                 WellFormed(source_df.source, c, Len(source_df.rows) + 1)])]
    /\ UNCHANGED <<sources, disk, pc, mediated, integrated, ratings_integrated, error,
                   calls, startDisk, changes, arg, result>>

\* one more row in the source frame, one field missing or malformed
AddDegradedRow ==
    /\ pc = "raw"
    /\ Len(source_df.rows) < MaxRawRows
    /\ \E bad \in Range(source_df.columns) \ IdColumns :
         \E v \in BadValues(bad) :
            source_df' =
              [source_df EXCEPT !.rows = Append(@,
                  [c \in Range(source_df.columns) |->
                      IF c = bad THEN v
                      ELSE WellFormed(source_df.source, c, Len(source_df.rows) + 1)])]
    /\ UNCHANGED <<sources, disk, pc, mediated, integrated, ratings_integrated, error,
                   calls, startDisk, changes, arg, result>>

\* the mapping of the frame's source
MapSource(f) ==
    CASE f.source = "imdb" -> map_imdb_to_mediated(f.rows)
      [] f.source = "movielens" -> map_movielens_to_mediated(f.rows)
      [] f.source = "tmdb" -> map_tmdb_to_mediated([columns |-> f.columns, rows |-> f.rows])

\* map_<source>_to_mediated(source_df): the frame it returns, or the exception
MapToMediated ==
    /\ pc = "raw"
    /\ \E out \in {MapSource(source_df)} :
         /\ error' = IF out.raised THEN out.error ELSE NoError
         /\ mediated' = IF out.raised THEN <<>> ELSE out.rows
    /\ pc' = "mapped"
    /\ UNCHANGED <<sources, disk, integrated, ratings_integrated, calls, startDisk,
                   changes, source_df, arg, result>>

NextMed == AddWellFormedRow \/ AddDegradedRow \/ MapToMediated

SpecMed == InitMed /\ [][NextMed]_vars

(***************************************************************************)
(* normalize_title and the MovieLens mapping on bounded titles: a title is *)
(* typed piece by piece, then handed to normalize_title (whose result is   *)
(* normalized once more) or, as the one row of a MovieLens frame, to       *)
(* map_movielens_to_mediated.                                              *)
(***************************************************************************)
MaxPieces == 4      \* pieces of a title

TitlePieces ==
    { <<"T", "h", "e", " ">>, <<"a", " ">>, <<"U", "p">>, <<" ", "(", "1", "9", "9", "9", ")">>, <<"(", "2", "0", "0", "9", ")">>, <<" ">>, <<"!">> }

InitTitle ==
    /\ sources = [imdb |-> TRUE, movielens |-> TRUE, tmdb |-> TRUE, version |-> 1]
    /\ disk = EmptyDisk
    /\ pc = "typing"
    /\ mediated = <<>>
    /\ integrated = <<>>
    /\ ratings_integrated = <<>>
    /\ error = NoError
    /\ calls = {}
    /\ startDisk = EmptyDisk
    /\ changes = 0
    /\ source_df = NoFrame
    /\ arg = [function |-> "title", text |-> <<>>, pieces |-> 0]
    /\ result = NoResult

\* one more piece at the end of the title
TypePiece ==
    /\ pc = "typing"
    /\ arg.pieces < MaxPieces
    /\ \E piece \in TitlePieces :
         arg' = [arg EXCEPT !.text = @ \o piece, !.pieces = @ + 1]
    /\ UNCHANGED <<sources, disk, pc, mediated, integrated, ratings_integrated, error,
                   calls, startDisk, changes, source_df, result>>

\* normalize_title(title), and normalize_title of what it returned
NormalizeTitleTwice ==
    /\ pc = "typing"
    /\ \E once \in {normalize_title(StrCell(arg.text))} :
         result' = [function |-> "normalize_title", once |-> once,
                    twice |-> normalize_title(once)]
    /\ pc' = "normalized"
    /\ UNCHANGED <<sources, disk, mediated, integrated, ratings_integrated, error,
                   calls, startDisk, changes, source_df, arg>>

\* the MovieLens frame of one movie with the typed title (read_csv gives NaN for an
\* empty field)
TitleFrame(text) ==
    << [movieId |-> IntCell(1), title |-> IF text = <<>> THEN NaN ELSE StrCell(text),
        genres |-> StrCell(Drama), rating_mean |-> FloatCell(Rat(4, 1)),
        rating_count |-> IntCell(10)] >>

\* map_movielens_to_mediated(df_ml_movies) on that frame
MapTitleFrame ==
    /\ pc = "typing"
    /\ \E out \in {map_movielens_to_mediated(TitleFrame(arg.text))} :
         /\ error' = IF out.raised THEN out.error ELSE NoError
         /\ mediated' = IF out.raised THEN <<>> ELSE out.rows
    /\ pc' = "mapped"
    /\ UNCHANGED <<sources, disk, integrated, ratings_integrated, calls, startDisk,
                   changes, source_df, arg, result>>

NextTitle == TypePiece \/ NormalizeTitleTwice \/ MapTitleFrame

SpecTitle == InitTitle /\ [][NextTitle]_vars

(***************************************************************************)
(* normalize_genres on bounded genre fields: the genre names of one movie  *)
(* are listed, written as the source writes its genre field, and handed to *)
(* normalize_genres.                                                       *)
(***************************************************************************)
MaxGenres == 3      \* genre names in a genre field

GenreNames ==
    { <<"S", "c", "i", "-", "F", "i">>, <<"S", "C", "I", "F", "I">>, <<"D", "r", "a", "m", "a">>, <<"d", "r", "a", "m", "a">>, <<" ", "A", "c", "t", "i", "o", "n">> }

\* the genre field of a source file for a list of names: comma-separated in IMDb's
\* title.basics, pipe-separated in MovieLens' movies.csv, the text of a Python list
\* in the TMDb file; read_csv gives NaN for an empty field
GenreField(source, names) ==
    CASE source = "imdb" -> IF names = <<>> THEN NaN ELSE StrCell(Join(names, ","))
      [] source = "movielens" -> IF names = <<>> THEN NaN ELSE StrCell(Join(names, "|"))
      [] source = "tmdb" ->
           StrCell(<<"[">>
                   \o Join([i \in DOMAIN names |->
                              (IF i > 1 THEN <<" ">> ELSE <<>>) \o <<"'">> \o names[i] \o <<"'">>],
                           ",")
                   \o <<"]">>)

InitGenres ==
    /\ sources = [imdb |-> TRUE, movielens |-> TRUE, tmdb |-> TRUE, version |-> 1]
    /\ disk = EmptyDisk
    /\ pc = "listing"
    /\ mediated = <<>>
    /\ integrated = <<>>
    /\ ratings_integrated = <<>>
    /\ error = NoError
    /\ calls = {}
    /\ startDisk = EmptyDisk
    /\ changes = 0
    /\ source_df = NoFrame
    /\ arg \in {[function |-> "genres", source |-> source, names |-> <<>>] :
                   source \in SourceNames}
    /\ result = NoResult

\* one more genre name in the field
AddGenreName ==
    /\ pc = "listing"
    /\ Len(arg.names) < MaxGenres
    /\ \E name \in GenreNames : arg' = [arg EXCEPT !.names = Append(@, name)]
    /\ UNCHANGED <<sources, disk, pc, mediated, integrated, ratings_integrated, error,
                   calls, startDisk, changes, source_df, result>>

\* normalize_genres(genres, source)
NormalizeGenres ==
    /\ pc = "listing"
    /\ result' = [function |-> "normalize_genres",
                  value |-> normalize_genres(GenreField(arg.source, arg.names), arg.source)]
    /\ pc' = "normalized"
    /\ UNCHANGED <<sources, disk, mediated, integrated, ratings_integrated, error,
                   calls, startDisk, changes, source_df, arg>>

NextGenres == AddGenreName \/ NormalizeGenres

SpecGenres == InitGenres /\ [][NextGenres]_vars

(***************************************************************************)
(* Claims about integrate_movies.                                          *)
(***************************************************************************)
\* the provenance list of an integrated row for one source
ProvColumn(row, source) ==
    LET cell == CASE source = "imdb" -> row.imdb_ids
                  [] source = "movielens" -> row.movielens_ids
                  [] source = "tmdb" -> row.tmdb_ids
    IN  IF cell.v = <<>> THEN <<>> ELSE Split(cell.v, "|")

\* the provenance cell of an integrated row for one source
ProvCell(row, source) ==
    CASE source = "imdb" -> row.imdb_ids
      [] source = "movielens" -> row.movielens_ids
      [] source = "tmdb" -> row.tmdb_ids

\* mediated row i is listed in integrated row j, in the column of its source
InRow(i, j) ==
    str(mediated[i].source_id) \in Range(ProvColumn(integrated[j], mediated[i].source))

RowsOfSource(source) == {i \in DOMAIN mediated : mediated[i].source = source}

\* C1: every mediated record's source_id is listed in exactly one integrated row, in
\* the column of its source, and the provenance lists together hold exactly the
\* source ids of the mediated table, each once.
C1_ProvenancePartition ==
    pc = "integrated" =>
        /\ \A i \in DOMAIN mediated :
               Cardinality({j \in DOMAIN integrated : InRow(i, j)}) = 1
        /\ \A source \in SourceNames :
               UNION {Range(ProvColumn(integrated[j], source)) : j \in DOMAIN integrated}
                   = {str(mediated[i].source_id) : i \in RowsOfSource(source)}
        /\ SumInt([j \in DOMAIN integrated |->
                      Len(ProvColumn(integrated[j], "imdb"))
                          + Len(ProvColumn(integrated[j], "movielens"))
                          + Len(ProvColumn(integrated[j], "tmdb"))]) = Len(mediated)

\* a three-source table with a null-keyed record has been integrated into two rows
C1_Witness ==
    /\ pc = "integrated"
    /\ Len(mediated) = 3
    /\ {mediated[i].source : i \in DOMAIN mediated} = SourceNames
    /\ \E i \in DOMAIN mediated : isna(mediated[i].title_norm)
    /\ Len(integrated) = 2

\* C2: the movie_id values of the N integrated rows are exactly 1..N, one per row,
\* N being the number of distinct (title_norm, year) keys of the mediated table.
C2_IdDensity ==
    pc = "integrated" =>
        /\ Len(integrated) = Cardinality({GroupKey(mediated[i]) : i \in DOMAIN mediated})
        /\ {integrated[j].movie_id : j \in DOMAIN integrated} = 1..Len(integrated)
        /\ \A j, k \in DOMAIN integrated :
               integrated[j].movie_id = integrated[k].movie_id => j = k

\* three groups have been given ids
C2_Witness == pc = "integrated" /\ Len(integrated) = 3

\* C3: two mediated records are in the same integrated row iff their title_norm are
\* identical and their years are identical (null equal to null); records without
\* title and year form a row of their own, which is emitted with a movie_id.
C3_GroupingIff ==
    pc = "integrated" =>
        /\ \A i, k \in DOMAIN mediated :
               (\E j \in DOMAIN integrated : InRow(i, j) /\ InRow(k, j))
                   <=> (/\ mediated[i].title_norm = mediated[k].title_norm
                        /\ mediated[i].year = mediated[k].year)
        /\ \A i \in DOMAIN mediated :
               (isna(mediated[i].title_norm) /\ isna(mediated[i].year)) =>
                   \E j \in DOMAIN integrated :
                       /\ InRow(i, j)
                       /\ isna(integrated[j].title_norm) /\ isna(integrated[j].year)
                       /\ integrated[j].movie_id \in 1..Len(integrated)

\* two records without title and year were merged into one row, beside a titled record
\* of the same unknown year in a row of its own
C3_Witness ==
    /\ pc = "integrated"
    /\ Len(mediated) = 3
    /\ Cardinality({i \in DOMAIN mediated :
                       isna(mediated[i].title_norm) /\ isna(mediated[i].year)}) = 2
    /\ \E i \in DOMAIN mediated : ~isna(mediated[i].title_norm) /\ isna(mediated[i].year)
    /\ Len(integrated) = 2

\* the members of integrated row j
MembersOf(j) == GroupOf(mediated, <<integrated[j].title_norm, integrated[j].year>>)

\* sum of the counts of the members whose rating is known
RatedCount(group) ==
    SumInt(Counts(SelectSeq(group, LAMBDA r : ~isna(r.rating_value))))

\* C4: in a group of positive total count the merged rating is
\* sum(rating_i * count_i) / sum(count_i) over the members whose rating is known
\* (stated for the groups in which that denominator is positive); with a total
\* count of zero the merged rating is unknown.
C4_WeightedRatingExcludesUnknown ==
    pc = "integrated" =>
        \A j \in DOMAIN integrated :
            LET group == MembersOf(j)
            IN  /\ (TotalCount(group) > 0 /\ RatedCount(group) > 0) =>
                       integrated[j].rating_value = WeightedRatingExcluding(group)
                /\ TotalCount(group) = 0 => isna(integrated[j].rating_value)

(***************************************************************************)
(* Claims about the rating remap, the pipeline driver and the mediator.    *)
(***************************************************************************)
\* the ids a provenance cell lists, whatever type the cell was parsed to
IdsOf(cell) ==
    IF isna(cell) \/ str(cell) = <<>> THEN {} ELSE Range(Split(str(cell), "|"))

\* the rows of an integrated table that list a native MovieLens id
ListingRows(tbl, id) == {j \in DOMAIN tbl : IntToStr(id) \in IdsOf(tbl[j].movielens_ids)}

\* rt is exactly the rows of ratings that tbl lists, each with the movie_id of its row
ExactlyListed(rt, ratings, tbl) ==
    With(SelectSeq(ratings, LAMBDA r : ListingRows(tbl, r.movieId.v) # {}), LAMBDA kept :
        /\ Len(rt) = Len(kept)
        /\ \A i \in DOMAIN kept :
             /\ rt[i].userId = kept[i].userId
             /\ rt[i].movieId = kept[i].movieId
             /\ rt[i].rating = kept[i].rating
             /\ \E j \in ListingRows(tbl, kept[i].movieId.v) : rt[i].movie_id = tbl[j].movie_id
        /\ (Len(kept) < Len(ratings) => Len(rt) < Len(ratings)))

\* map_movielens_ratings_to_integrated has run and the ratings file was there for it
RemapRan ==
    /\ pc \in {"done", "aborted"}
    /\ "map_movielens_ratings_to_integrated" \in calls
    /\ disk.movielens_ratings_raw.exists

\* C5: map_movielens_ratings_to_integrated raises no error and outputs exactly the
\* rating rows whose movieId some integrated row lists in movielens_ids, each with
\* the movie_id of the row that lists it; the other rows are dropped, so the output
\* is shorter than the input when there are such rows.
C5_RemapExact ==
    RemapRan =>
        /\ error = NoError
        /\ ExactlyListed(ratings_integrated, read_csv(disk.movielens_ratings_raw.content),
                         integrated)

\* the integrated-movies table lists the records of the current source files and
\* counts the votes of the current IMDb ratings file
FreshMovies(tbl, src) ==
    /\ UNION {IdsOf(tbl[j].imdb_ids) : j \in DOMAIN tbl}
         = {str(b.tconst) : b \in Range(IMDB_BASICS(src.version))}
    /\ UNION {IdsOf(tbl[j].movielens_ids) : j \in DOMAIN tbl}
         = {str(m.movieId) : m \in Range(ML_MOVIES(src.version))}
    /\ UNION {IdsOf(tbl[j].tmdb_ids) : j \in DOMAIN tbl}
         = IF src.tmdb THEN {str(m["id"]) : m \in Range(TMDB_MOVIES(src.version).rows)} ELSE {}
    /\ \A r \in Range(IMDB_RATINGS(src.version)) :
         \E j \in DOMAIN tbl :
            /\ str(r.tconst) \in IdsOf(tbl[j].imdb_ids)
            /\ tbl[j].rating_count.v >= r.numVotes.v

\* both integrated artifacts are derived from the current source data
ArtifactsFresh ==
    /\ disk.integrated_movies.exists
    /\ disk.ratings_integrated.exists
    /\ FreshMovies(disk.integrated_movies.content, sources)
    /\ ExactlyListed(disk.ratings_integrated.content, ML_RATINGS(sources.version),
                     disk.integrated_movies.content)

\* C6 as stated: whenever a run of prep_data.main completes, the integrated movies
\* and integrated ratings artifacts are derived from the source data as it now is,
\* so a change of the sources is followed by a regeneration.
C6_RegeneratedOnChange == (pc = "done" /\ sources.imdb /\ sources.movielens) => ArtifactsFresh

\* C6, amended: a run of prep_data.main that starts with data_processed/ emptied of
\* every cached file and completes leaves integrated movies and integrated ratings
\* artifacts derived from the source data as it now is.
C6_FreshAfterClean == (pc = "done" /\ startDisk = EmptyDisk) => ArtifactsFresh

\* the sources changed after a first run, the cache was emptied, the next run completed
C6_Witness ==
    /\ pc = "done"
    /\ startDisk = EmptyDisk
    /\ sources.version = 2
    /\ sources.tmdb
    /\ changes = 2
    /\ Len(disk.integrated_movies.content) = 2

\* C7: a stage of prep_data.main whose artifact exists when the run starts loads it:
\* its compute function is not called, the artifact stays as it was, and the next
\* stage receives the loaded content; a stage computes only when its artifact is absent.
C7_StagesLoadExisting ==
    /\ pc \in {"stage2", "stage3", "done"} =>
         IF startDisk.mediated.exists
         THEN /\ "build_mediated_table" \notin calls
              /\ disk.mediated = startDisk.mediated
              /\ mediated = read_csv(startDisk.mediated.content)
         ELSE "build_mediated_table" \in calls
    /\ pc \in {"stage3", "done"} =>
         IF startDisk.integrated_movies.exists
         THEN /\ "integrate_movies" \notin calls
              /\ disk.integrated_movies = startDisk.integrated_movies
              /\ integrated = read_csv(startDisk.integrated_movies.content)
         ELSE "integrate_movies" \in calls
    /\ pc = "done" =>
         IF startDisk.ratings_integrated.exists
         THEN /\ "map_movielens_ratings_to_integrated" \notin calls
              /\ disk.ratings_integrated = startDisk.ratings_integrated
              /\ ratings_integrated = read_csv(startDisk.ratings_integrated.content)
         ELSE "map_movielens_ratings_to_integrated" \in calls

\* a run that found the first two artifacts, loaded them and computed the third
C7_Witness ==
    /\ pc = "done"
    /\ startDisk.mediated.exists
    /\ startDisk.integrated_movies.exists
    /\ ~startDisk.ratings_integrated.exists
    /\ calls = {"map_movielens_ratings_to_integrated"}
    /\ Len(integrated) = 2

\* the mediated field a source column provides
FieldOf(c) ==
    CASE c \in TitleColumns -> "title_norm"
      [] c \in YearColumns -> "year"
      [] c \in GenreColumns -> "genres_norm"
      [] c \in RatingColumns -> "rating_value"
      [] c \in CountColumns -> "rating_count"
      [] c = "popularity" -> "popularity"

\* a mediated field holds no value
Unknown(cell) == isna(cell) \/ cell = StrCell(<<>>)

\* a source field is missing or malformed
IsBad(cell) == isna(cell) \/ cell = Malformed

\* C8: a mapping of mediated.py never raises because of a field value and emits one
\* mediated record per input row, in which a field is unknown exactly when the value
\* the source row gives for it is missing or malformed.
C8_FieldDegradation ==
    pc = "mapped" =>
        /\ error = NoError
        /\ Len(mediated) = Len(source_df.rows)
        /\ \A i \in DOMAIN source_df.rows :
             \A c \in Range(source_df.columns) \ IdColumns :
                 Unknown(mediated[i][FieldOf(c)]) <=> IsBad(source_df.rows[i][c])

\* the stage at pc needs the raw files of a required source and they are absent
ImdbMissing ==
    /\ pc = "stage1" /\ ~disk.mediated.exists
    /\ ~disk.imdb_movies_raw.exists /\ ~sources.imdb
MovielensMissingForMediated ==
    /\ pc = "stage1" /\ ~disk.mediated.exists
    /\ disk.imdb_movies_raw.exists \/ sources.imdb
    /\ ~disk.movielens_movies_raw.exists /\ ~sources.movielens
MovielensMissingForRatings ==
    /\ pc = "stage3" /\ ~disk.ratings_integrated.exists
    /\ ~disk.movielens_ratings_raw.exists /\ ~sources.movielens

\* C9: when the IMDb or MovieLens raw files a stage needs are absent, the step of the
\* stage raises FileNotFoundError naming the missing files and the run aborts: the
\* stage's artifact is not written, and an aborted run takes no further stage step.
C9_MissingSourceAborts ==
    [][ /\ ImdbMissing =>
             /\ pc' = "aborted"
             /\ error' = [type |-> "FileNotFoundError",
                          message |-> "IMDb CSVs not found in data_raw/."]
             /\ ~disk'.mediated.exists
        /\ MovielensMissingForMediated =>
             /\ pc' = "aborted"
             /\ error' = [type |-> "FileNotFoundError",
                          message |-> "MovieLens CSVs not found in data_raw/."]
             /\ ~disk'.mediated.exists
        /\ MovielensMissingForRatings =>
             /\ pc' = "aborted"
             /\ error' = [type |-> "FileNotFoundError",
                          message |-> "MovieLens CSVs not found in data_raw/."]
             /\ ~disk'.ratings_integrated.exists
        /\ pc = "aborted" =>
             /\ pc' \in {"aborted", "idle", "stage1"}
             /\ pc' = "aborted" => UNCHANGED <<disk, calls, error>>
      ]_vars

\* the third stage aborted a run for want of the MovieLens files
C9_Witness ==
    /\ pc = "aborted"
    /\ error.type = "FileNotFoundError"
    /\ "map_movielens_ratings_to_integrated" \in calls
    /\ ~sources.movielens
    /\ ~disk.ratings_integrated.exists

\* the run's build_mediated_table had the IMDb and MovieLens data within reach
RequiredAvailable ==
    /\ startDisk.imdb_movies_raw.exists \/ sources.imdb
    /\ startDisk.movielens_movies_raw.exists \/ sources.movielens

\* the IMDb and MovieLens tables the run's build_mediated_table works from: the raw
\* cache the run found, or else the source files
ImdbTable ==
    IF startDisk.imdb_movies_raw.exists THEN read_csv(startDisk.imdb_movies_raw.content)
    ELSE IMDB_BASICS(sources.version)
MovielensTable ==
    IF startDisk.movielens_movies_raw.exists
    THEN read_csv(startDisk.movielens_movies_raw.content)
    ELSE ML_MOVIES(sources.version)

\* build_mediated_table raised
BuildFailed == pc = "aborted" /\ calls = {"build_mediated_table"}

\* tbl holds one record per row of the IMDb table, then one per row of the MovieLens table
ExactlyImdbAndMovielens(tbl, imdb, ml) ==
    /\ Len(tbl) = Len(imdb) + Len(ml)
    /\ \A i \in DOMAIN imdb :
         tbl[i].source = "imdb" /\ str(tbl[i].source_id) = str(imdb[i].tconst)
    /\ \A i \in DOMAIN ml :
         /\ tbl[Len(imdb) + i].source = "movielens"
         /\ str(tbl[Len(imdb) + i].source_id) = str(ml[i].movieId)

\* C10: with the TMDb file absent build_mediated_table does not fail: the empty TMDb
\* frame maps to a zero-row table with the full mediated column set, and the mediated
\* table it saves holds exactly the IMDb and MovieLens records.
C10_TmdbOptional ==
    (/\ pc \in {"stage2", "stage3", "done", "aborted"}
     /\ "build_mediated_table" \in calls
     /\ ~sources.tmdb)
    => /\ map_tmdb_to_mediated(TmdbOrEmpty(sources))
            = [raised |-> FALSE, rows |-> <<>>,
               columns |-> <<"movie_temp_id", "source", "source_id", "title_norm", "year",
                             "genres_norm", "rating_value", "rating_count", "popularity",
                             "budget", "revenue">>]
       /\ RequiredAvailable => ~BuildFailed
       /\ ~BuildFailed =>
             /\ disk.mediated = File(mediated)
             /\ ExactlyImdbAndMovielens(mediated, ImdbTable, MovielensTable)

\* a run without the TMDb file built and saved the mediated table and completed
C10_Witness ==
    /\ pc = "done"
    /\ "build_mediated_table" \in calls
    /\ ~sources.tmdb
    /\ disk.mediated.exists
    /\ Len(mediated) = 2
    /\ \A i \in DOMAIN mediated : mediated[i].source # "tmdb"

(***************************************************************************)
(* Claims about utils.py.                                                  *)
(***************************************************************************)
\* C11: normalize_title is idempotent: normalizing the normalized title of any title
\* string returns it unchanged.
C11_TitleIdempotent ==
    pc = "normalized" => result.twice = result.once

\* the orders in which a list of names can be written
Reorderings(names) ==
    {[i \in DOMAIN names |-> names[f[i]]] :
        f \in {g \in [DOMAIN names -> DOMAIN names] : \A a, b \in DOMAIN names : g[a] = g[b] => a = b}}

\* the list with some of its names written again
Repetitions(names) ==
    {names \o SubSeq(names, 1, k) : k \in 0..Len(names)}
        \cup {SubSeq(names, k, Len(names)) \o names : k \in 1..Len(names)}

\* the tokens of a pipe-joined list
PipeTokens(cell) == IF cell.v = <<>> THEN <<>> ELSE Split(cell.v, "|")

\* the name is "sci-fi" or "scifi" in some letter case, possibly padded with blanks
SciFiNames ==
    {name \in GenreNames : Lower(StripChars(name, {" "})) \in {SciFi, Scifi}}

\* C12: normalize_genres does not depend on the order or the repetition of the names
\* in the genre field, returns a sorted duplicate-free pipe-joined list of lowercase
\* tokens, and has "science fiction", never "sci-fi", where the field had "sci-fi" or
\* "scifi" in any letter case.
C12_GenresCanonical ==
    pc = "normalized" /\ result.function = "normalize_genres" =>
        /\ \A p \in Reorderings(arg.names) \cup Repetitions(arg.names) :
              normalize_genres(GenreField(arg.source, p), arg.source) = result.value
        /\ \A i, j \in DOMAIN PipeTokens(result.value) :
              i < j => StrLess(PipeTokens(result.value)[i], PipeTokens(result.value)[j])
        /\ \A i \in DOMAIN result.value.v : ~IsUpper(result.value.v[i])
        /\ (Range(arg.names) \cap SciFiNames # {}) =>
              ScienceFiction \in Range(PipeTokens(result.value))
        /\ SciFi \notin Range(PipeTokens(result.value))
        /\ Scifi \notin Range(PipeTokens(result.value))

\* a field with "Sci-Fi", "SCIFI" and " Action" has been normalized
C12_Witness ==
    /\ pc = "normalized" /\ result.function = "normalize_genres"
    /\ arg.names = << <<"S", "c", "i", "-", "F", "i">>, <<" ", "A", "c", "t", "i", "o", "n">>, <<"S", "C", "I", "F", "I">> >>
    /\ result.value = StrCell(<<"a", "c", "t", "i", "o", "n", "|", "s", "c", "i", "e", "n", "c", "e", " ", "f", "i", "c", "t", "i", "o", "n">>)

KnownCounts(group) ==
    With(SelectSeq(group, LAMBDA r : ~isna(r.rating_count)), LAMBDA known :
        [i \in DOMAIN known |-> known[i].rating_count.v])

\* C14: the rating_count of an integrated row is the integer sum of its members'
\* rating_count values, an unknown count counting as 0; it is 0 when no member has
\* a count.
C14_RatingCountIsSum ==
    pc = "integrated" =>
        \A j \in DOMAIN integrated :
            /\ integrated[j].rating_count = IntCell(SumInt(KnownCounts(MembersOf(j))))
            /\ KnownCounts(MembersOf(j)) = <<>> => integrated[j].rating_count = IntCell(0)

\* a group of three members, one of unknown count and two of count 100, one of these
\* with an unknown rating
C14_Witness ==
    /\ pc = "integrated"
    /\ \E j \in DOMAIN integrated :
         /\ Len(MembersOf(j)) = 3
         /\ KnownCounts(MembersOf(j)) = <<100, 100>>
         /\ \E i \in DOMAIN MembersOf(j) :
               isna(MembersOf(j)[i].rating_value) /\ ~isna(MembersOf(j)[i].rating_count)
         /\ integrated[j].rating_count = IntCell(200)

\* the position in the mediated table of the first member of integrated row j
FirstAppearance(j) ==
    CHOOSE i \in DOMAIN mediated :
        /\ GroupKey(mediated[i]) = <<integrated[j].title_norm, integrated[j].year>>
        /\ \A k \in 1..(i - 1) : GroupKey(mediated[k]) # GroupKey(mediated[i])

\* C15: integrate_movies assigns movie_id 1, 2, ... to the groups in the order in
\* which their (title_norm, year) keys first appear in the mediated table from top
\* to bottom; the keys are not re-sorted.
C15_FirstAppearanceOrder ==
    pc = "integrated" =>
        \A j, k \in DOMAIN integrated :
            FirstAppearance(j) < FirstAppearance(k) =>
                integrated[j].movie_id < integrated[k].movie_id

(***************************************************************************)
(* Claims about the MovieLens mapping and the genre union.                 *)
(***************************************************************************)
\* the year of the "(YYYY)" that ends the title, the suffix normalize_title strips
TrailingYear(text) ==
    IF YearGroupAt(text, Len(text) - 5)
    THEN IntCell(StrToInt(SubSeq(text, Len(text) - 4, Len(text) - 1)))
    ELSE NaN

\* C16: map_movielens_to_mediated sets year to the four-digit number of the trailing
\* "(YYYY)" of the MovieLens title, and to unknown when the title has no trailing
\* "(YYYY)".
C16_YearFromTrailingGroup ==
    pc = "mapped" /\ arg.function = "title" /\ error = NoError =>
        mediated[1].year = TrailingYear(arg.text)

\* the genre tokens of the members of a group
MemberGenres(group) ==
    UNION {Range(Split(group[i].genres_norm.v, "|")) :
             i \in {k \in DOMAIN group :
                      ~isna(group[k].genres_norm) /\ group[k].genres_norm.v # <<>>}}

\* C17: the genres_norm of an integrated row is the union of the genre tokens of all
\* members of its group, sorted, duplicate-free and pipe-joined; it is the empty
\* string when no member has any genre.
C17_GenresUnion ==
    pc = "integrated" =>
        \A j \in DOMAIN integrated :
            /\ integrated[j].genres_norm.t = "str"
            /\ Range(PipeTokens(integrated[j].genres_norm)) = MemberGenres(MembersOf(j))
            /\ \A a, b \in DOMAIN PipeTokens(integrated[j].genres_norm) :
                  a < b => StrLess(PipeTokens(integrated[j].genres_norm)[a],
                                   PipeTokens(integrated[j].genres_norm)[b])
            /\ MemberGenres(MembersOf(j)) = {} => integrated[j].genres_norm = StrCell(<<>>)

\* a group of "comedy|drama", "action" and "drama" has been merged
C17_Witness ==
    /\ pc = "integrated"
    /\ \E j \in DOMAIN integrated :
         /\ Len(MembersOf(j)) = 3
         /\ MembersOf(j)[1].genres_norm =
              StrCell(<<"c", "o", "m", "e", "d", "y", "|", "d", "r", "a", "m", "a">>)
         /\ MembersOf(j)[2].genres_norm = StrCell(<<"a", "c", "t", "i", "o", "n">>)
         /\ MembersOf(j)[3].genres_norm = StrCell(Drama)
         /\ integrated[j].genres_norm =
              StrCell(<<"a", "c", "t", "i", "o", "n", "|", "c", "o", "m", "e", "d", "y", "|",
                        "d", "r", "a", "m", "a">>)

(***************************************************************************)
(* Claims about the generations of the artifacts.                          *)
(***************************************************************************)
\* every rating of the integrated-ratings table carries the movie_id that the catalog
\* assigns to the rating's native MovieLens movie
RatingsOfCatalog(rt, tbl) ==
    \A i \in DOMAIN rt :
        \E j \in ListingRows(tbl, rt[i].movieId.v) : rt[i].movie_id = tbl[j].movie_id

\* the catalog lists the records of the mediated table, each in a row of its title,
\* and nothing else
CatalogOfMediated(tbl, med) ==
    /\ \A s \in SourceNames :
          UNION {IdsOf(ProvCell(tbl[j], s)) : j \in DOMAIN tbl}
            = {str(med[i].source_id) : i \in {k \in DOMAIN med : med[k].source = s}}
    /\ \A i \in DOMAIN med :
          \E j \in DOMAIN tbl :
             /\ str(med[i].source_id) \in IdsOf(ProvCell(tbl[j], med[i].source))
             /\ tbl[j].title_norm = med[i].title_norm

\* the three artifacts on disk belong to one generation
OneGeneration ==
    /\ disk.mediated.exists
    /\ disk.integrated_movies.exists
    /\ disk.ratings_integrated.exists
    /\ RatingsOfCatalog(disk.ratings_integrated.content, disk.integrated_movies.content)
    /\ CatalogOfMediated(disk.integrated_movies.content, disk.mediated.content)

\* C18: whenever a run of prep_data.main has completed, after any sequence of runs,
\* removals of single artifacts and changes of the source data, the three artifacts
\* on disk belong to one generation: the integrated ratings carry the movie_id the
\* integrated-movies artifact on disk assigns to each rating's native movie, and the
\* integrated-movies artifact lists the records of the mediated artifact on disk.
C18_OneGeneration == pc = "done" => OneGeneration


====
